---- MODULE Spec2Model ----
(***************************************************************************)
(* Model of the simulation core (Engine): initialize, setOptions and the   *)
(* integration loop of simulate, with its break-point arithmetic, the      *)
(* failed-step limiter and the telemetry coupling.                         *)
(*                                                                         *)
(* Time is counted in integer ticks.  The floating-point thresholds of the *)
(* code keep their order on the tick grid:                                 *)
(*   machine epsilon < 1e-8 < 5e-4 < 5e-2.                                 *)
(* The ODE state x is identified with the time up to which it has been     *)
(* integrated; a derivative dxdt is identified with the pair (state it was *)
(* evaluated at, control force it was evaluated with).                     *)
(***************************************************************************)
EXTENDS Integers, Sequences, FiniteSets, TLC

\* ---------------------------------------------------------------- bounds
\* number of runs started in one behaviour; the API is called any number of
\* times before the last run
MaxRuns == 1
\* largest step size the step-size controller may propose, in ticks
MaxDt == 12
\* largest buffer of a memory device, in bytes
MaxSize == 3

\* ------------------------------------------------------ program constants
\* std::numeric_limits<float64_t>::epsilon(), in ticks
Eps == 2
\* 1e-8, tolerance of the break-point coincidence test, in ticks
Tol == 3
\* 5e-4, initial step size of the free adaptive mode, in ticks
InitDt == 4
\* 5e-2, shortest accepted simulation duration, in ticks
MinEndTime == 16
\* 1e5, cap on the number of outer iterations, scaled to the tick grid
MAX_ITERS == 6
\* failed_step_checker: number of consecutive rejects tolerated, scaled
MaxFailedSteps == 1

\* ------------------------------------------------------------ input sets
\* update periods offered to setOptions: 0 (continuous), a positive value
\* below machine epsilon, and two values of which neither divides the other
Periods == {0, 1, 8, 12}
\* end times offered to simulate
EndTimes == {MinEndTime - 1, MinEndTime, 20}
\* raw torques a controller may return (one motor)
CmdValues == {-3, 3}
\* placeholder for the command where the controller is not called
NoCmd == 0

NoValue == -1

\* models: two initialised ones and one that is not
Models == {[id |-> "mA", isInit |-> TRUE], [id |-> "mB", isInit |-> TRUE], [id |-> "mU", isInit |-> FALSE]}

\* the null model pointer
NullModel == [id |-> "NULL", isInit |-> FALSE]

\* controllers: initialised or not, and what each callback does when the
\* engine validates it ("ok", "badsize": wrong length, "throw")
Controllers == {[id |-> "c1", isInit |-> TRUE, cmd |-> "ok", int |-> "ok"], [id |-> "cU", isInit |-> FALSE, cmd |-> "ok", int |-> "ok"], [id |-> "cBadCmd", isInit |-> TRUE, cmd |-> "badsize", int |-> "ok"], [id |-> "cBadInt", isInit |-> TRUE, cmd |-> "ok", int |-> "badsize"], [id |-> "cThrowCmd", isInit |-> TRUE, cmd |-> "throw", int |-> "ok"], [id |-> "cThrowInt", isInit |-> TRUE, cmd |-> "ok", int |-> "throw"], [id |-> "cBadCmdThrowInt", isInit |-> TRUE, cmd |-> "badsize", int |-> "throw"]}

\* the null controller pointer
NullController == [id |-> "NULL", isInit |-> FALSE, cmd |-> "ok", int |-> "ok"]

\* Model::nx()
nx(m) == 2

\* sizes of x_init offered to simulate
XLens == {2, 3}

\* pncModel_.effortLimit of the actuated joint
effortLimit(m) == IF m.id = "mB" THEN 2 ELSE 1

Abs(a) == IF a < 0 THEN -a ELSE a
Min(a, b) == IF a < b THEN a ELSE b
Max(a, b) == IF a > b THEN a ELSE b

\* std::round(t / p) * p for t >= 0, p > 0 (halves round away from zero)
RoundToMultiple(t, p) == ((2 * t + p) \div (2 * p)) * p

\* boost::algorithm::clamp without the lower bound
clampUpperOnly(v, lo, hi) == IF v > hi THEN hi ELSE v

\* boost::algorithm::clamp
clamp(v, lo, hi) == IF v < lo THEN lo ELSE IF v > hi THEN hi ELSE v

\* ----------------------------------------------------------------- state
VARIABLES engineOptions, gravity, isInitialized_, model_, controller_, callbackFct_, stepperState_, registered, nRows, rowT, updated, sensorsT, pc, end_time, updatePeriod, dt, current_time, next_time, fails, nRuns, lastOp, returnCode, cbStop, ev, ctrlTimes, sensTimes, ctrlCalls, contactOptions, frames, fextInWorld, contactForces_, fext, muProbe, bufferSize, currentPos_, ioOp, jointOptions, jointState, forceJoint, uBounds, sensorsLookup, formattedLog, positionLimits

vars == <<engineOptions, gravity, isInitialized_, model_, controller_, callbackFct_, stepperState_, registered, nRows, rowT, updated, sensorsT, pc, end_time, updatePeriod, dt, current_time, next_time, fails, nRuns, lastOp, returnCode, cbStop, ev, ctrlTimes, sensTimes, ctrlCalls, contactOptions, frames, fextInWorld, contactForces_, fext, muProbe, bufferSize, currentPos_, ioOp, jointOptions, jointState, forceJoint, uBounds, sensorsLookup, formattedLog, positionLimits>>

\* the engine's own fields, and the gravity of the models it is given
engineVars == <<engineOptions, gravity, isInitialized_, model_, controller_, callbackFct_, stepperState_, registered, nRows, rowT, updated, sensorsT>>

\* the locals of a simulate call and the observers of a run
runVars == <<pc, end_time, updatePeriod, dt, current_time, next_time, fails, cbStop, ev, ctrlTimes, sensTimes, ctrlCalls>>

\* the contact options, the kinematic data of the contact frames, the locals
\* of contactDynamics, the two force buffers, and the friction probe
contactVars == <<contactOptions, frames, fextInWorld, contactForces_, fext, muProbe>>

\* a memory device: the size of its buffer, its position, its last operation
deviceVars == <<bufferSize, currentPos_, ioOp>>

\* the joint-bound model: its options, the state it is evaluated at, the
\* local forceJoint of each actuated joint before the blending, and uBounds
boundsVars == <<jointOptions, jointState, forceJoint, uBounds>>

\* the Python bindings: the last access to a sensors-data map, the last log
\* formatted, and the position limits of a model with the last property read
pythonVars == <<sensorsLookup, formattedLog, positionLimits>>

\* Engine::getDefaultOptions
DefaultOptions == [gravity |-> "standard", sensorsUpdatePeriod |-> 0, controllerUpdatePeriod |-> 0, logConfiguration |-> TRUE, logVelocity |-> TRUE, logAcceleration |-> TRUE, logCommand |-> TRUE]

\* options offered to setOptions
OptionChoices == {[DefaultOptions EXCEPT !.sensorsUpdatePeriod = s, !.controllerUpdatePeriod = c] : s \in Periods, c \in Periods}

\* options offered to setOptions where the gravity is varied: the default
\* options, and the free adaptive mode and one break-point mode under
\* another gravity
GravityOptionChoices == {DefaultOptions, [DefaultOptions EXCEPT !.gravity = "moon"], [DefaultOptions EXCEPT !.gravity = "moon", !.sensorsUpdatePeriod = 8, !.controllerUpdatePeriod = 12]}

\* options offered to setOptions where the telemetry flags are varied: the
\* default options, the command channel switched off, and the
\* configuration channel switched off in a break-point mode
TelemetryOptionChoices == {DefaultOptions, [DefaultOptions EXCEPT !.logCommand = FALSE], [DefaultOptions EXCEPT !.logConfiguration = FALSE, !.sensorsUpdatePeriod = 8, !.controllerUpdatePeriod = 12]}

\* pncModel_.gravity of a model that no engine has written to
ModelGravity == [id \in {m.id : m \in Models} |-> "standard"]

\* Engine::getOptions
getOptions == engineOptions

\* the gravity of the models after setOptions(o): it is written to the
\* current model of an initialised engine
GravityPushed(o) == IF isInitialized_ THEN [gravity EXCEPT ![model_.id] = o.gravity] ELSE gravity

\* derivative of a freshly initialised stepper state (vector of zeros)
ZeroDxdt == [x |-> NoValue, u |-> 0]

\* stepperState_t::initialize(model, x_init): x_init is the state at t = 0
StepperInitialize(m) == [x |-> 0, dxdt |-> ZeroDxdt, uControl |-> 0, uCommandLast |-> 0, tLast |-> 0, xLast |-> 0, aLast |-> ZeroDxdt, uLast |-> ZeroDxdt, energyLast |-> 0, iterLast |-> 0]

\* stepperState_ of a constructed engine
StepperConstructed == StepperInitialize(NullModel)

\* stepperState_t::updateLast
updateLast(ss, t, xx, a, u, uCommand, energy) == [ss EXCEPT !.tLast = t, !.xLast = xx, !.aLast = a, !.uLast = u, !.uCommandLast = uCommand, !.energyLast = energy, !.iterLast = ss.iterLast + 1]

\* channels registered by initialize under the given options
RegisteredChannels(o) == (IF o.logConfiguration THEN {"q"} ELSE {}) \cup (IF o.logVelocity THEN {"v"} ELSE {}) \cup (IF o.logAcceleration THEN {"a"} ELSE {}) \cup (IF o.logCommand THEN {"uCommand"} ELSE {}) \cup {"energy"}

\* the calls a simulate call has made to its controller so far: the number of
\* calls of reset, and whether compute_command or internalDynamics has been
\* called before any reset
NoCalls == [reset |-> 0, early |-> FALSE]

\* the log after a call of the given method of the controller
Called(log, method) == IF method = "reset" THEN [log EXCEPT !.reset = @ + 1] ELSE [log EXCEPT !.early = @ \/ log.reset = 0]

RECURSIVE CalledAll(_, _)
\* the log after a sequence of calls
CalledAll(log, methods) == IF methods = <<>> THEN log ELSE CalledAll(Called(log, Head(methods)), Tail(methods))

EngineInit ==
    /\ engineOptions = DefaultOptions
    /\ gravity = ModelGravity
    /\ isInitialized_ = FALSE
    /\ model_ = NullModel
    /\ controller_ = NullController
    /\ callbackFct_ = "cbDefault"
    /\ stepperState_ = StepperConstructed
    /\ registered = {}
    /\ nRows = 0
    /\ rowT = NoValue
    /\ updated = {}
    /\ sensorsT = NoValue
    /\ pc = "idle"
    /\ end_time = 0
    /\ updatePeriod = 0
    /\ dt = 0
    /\ current_time = 0
    /\ next_time = 0
    /\ fails = 0
    /\ nRuns = 0
    /\ lastOp = "none"
    /\ returnCode = "NONE"
    /\ cbStop = FALSE
    /\ ev = <<>>
    /\ ctrlTimes = {}
    /\ sensTimes = {}
    /\ ctrlCalls = NoCalls

\* --------------------------------------------------------- contact model
\* Forces are integers: a tangential force and a friction coefficient are
\* counted in units of 1 / dryFrictionVelEps, so that the divisions of the
\* friction law are exact; a wrench is the triple of its linear components in
\* the world frame, the contact frames being aligned with their joints.

\* 1e5, bound of each tangential component of a contact force, scaled
MaxTangentialForce == 50

\* contact options offered
ContactOptionChoices == {[stiffness |-> 2, damping |-> 1, frictionDry |-> fdry, frictionViscous |-> fvis, dryFrictionVelEps |-> e] : fdry \in {2, 3, 4}, fvis \in {1, 3}, e \in {4, 8}}

\* kinematic data of one contact frame offered: height, vertical velocity
\* and tangential velocity in the world frame
FrameStates == {[pz |-> 1, vz |-> -1, vxy |-> <<3, 4>>], [pz |-> 0, vz |-> -1, vxy |-> <<3, 0>>], [pz |-> -1, vz |-> 0, vxy |-> <<0, 0>>], [pz |-> -1, vz |-> -1, vxy |-> <<0, -1>>], [pz |-> -1, vz |-> 0, vxy |-> <<3, 0>>], [pz |-> -2, vz |-> 1, vxy |-> <<3, 4>>], [pz |-> -2, vz |-> -1, vxy |-> <<6, 8>>], [pz |-> -1, vz |-> -1, vxy |-> <<-5, 12>>]}

\* model_->getContactFramesIdx(): the contact frames
ContactFrames == {1, 2}

\* pncModel_.frames[contactFrameIdx].parent: both contact frames hang on
\* joint 1
FrameParent == <<1, 1>>

\* pncModel_.joints
Joints == {0, 1}

\* pinocchio::Force::Zero()
ZeroForce == <<0, 0, 0>>

\* tangential speeds
Speeds == 0..13

\* speeds at which the friction is probed
ProbeSpeeds == 1..12

\* vxy.norm(), exact for the tangential velocities offered
Norm(v) == CHOOSE n \in Speeds : n * n = v[1] * v[1] + v[2] * v[2]

\* a frame one unit above the ground counts as penetrating
penetratesUpToOne(pz) == pz <= 1

\* posFrame(2) < 0.0
penetrates(pz) == pz < 0

\* fextInWorld(2): spring, and damper while the frame moves further in
normalForce(f, o) == -o.stiffness * f.pz + (IF f.vz < 0 THEN -o.damping * f.vz ELSE 0)

\* the bridge between the two friction regimes misses frictionViscous
frictionCoeffJump(s, o) ==
    IF s > o.dryFrictionVelEps
    THEN IF 2 * s < 3 * o.dryFrictionVelEps
         THEN -2 * s * (o.frictionDry - o.frictionViscous) + (3 * o.frictionDry - 3 * o.frictionViscous) * o.dryFrictionVelEps
         ELSE o.frictionViscous * o.dryFrictionVelEps
    ELSE s * o.frictionDry

\* frictionCoeff at the tangential speed s, times dryFrictionVelEps
frictionCoeff(s, o) ==
    IF s > o.dryFrictionVelEps
    THEN IF 2 * s < 3 * o.dryFrictionVelEps
         THEN -2 * s * (o.frictionDry - o.frictionViscous) + (3 * o.frictionDry - 2 * o.frictionViscous) * o.dryFrictionVelEps
         ELSE o.frictionViscous * o.dryFrictionVelEps
    ELSE s * o.frictionDry

\* fextInWorld.head<2>() before it is clamped: -vxy * frictionCoeff * fz
tangentialForce(f, o) == [i \in 1..2 |-> -f.vxy[i] * frictionCoeff(Norm(f.vxy), o) * normalForce(f, o)]

\* std::min(std::max(x, -1e5), 1e5)
clampTangential(x, o) == Min(Max(x, -MaxTangentialForce * o.dryFrictionVelEps), MaxTangentialForce * o.dryFrictionVelEps)

\* std::tanh(2 * (-pz) / transitionEps) in quarters, for transitionEps = 2
blendingLaw(pz) == IF pz = 0 THEN 0 ELSE IF pz = -1 THEN 3 ELSE IF pz < -1 THEN 4 ELSE IF pz = 1 THEN -3 ELSE -4

\* the locals of contactDynamics at its return: the tangential force before
\* and after the clamp, and the normal force
ContactLocals(f, o) ==
    IF penetrates(f.pz)
    THEN [fxy |-> tangentialForce(f, o), fxyClamped |-> [i \in 1..2 |-> clampTangential(tangentialForce(f, o)[i], o)], fz |-> normalForce(f, o)]
    ELSE [fxy |-> <<0, 0>>, fxyClamped |-> <<0, 0>>, fz |-> 0]

\* Engine::contactDynamics: the wrench of one contact frame
contactDynamics(f, o) ==
    IF penetrates(f.pz)
    THEN LET c == ContactLocals(f, o)
         IN  <<c.fxyClamped[1] * blendingLaw(f.pz), c.fxyClamped[2] * blendingLaw(f.pz), c.fz * o.dryFrictionVelEps * blendingLaw(f.pz)>>
    ELSE ZeroForce

\* fext[j]: the sum of the contact forces of the frames that hang on joint j
Accumulated(forces, j) == [k \in 1..3 |-> (IF FrameParent[1] = j THEN forces[1][k] ELSE 0) + (IF FrameParent[2] = j THEN forces[2][k] ELSE 0)]

\* no friction probe made yet
NoProbe == [s |-> 0, below |-> 0, above |-> 0]

\* the contact data of an engine that has evaluated no dynamics
ContactInit(o) ==
    /\ contactOptions = o
    /\ frames = <<>>
    /\ fextInWorld = <<>>
    /\ contactForces_ = [i \in ContactFrames |-> ZeroForce]
    /\ fext = [j \in Joints |-> ZeroForce]
    /\ muProbe = NoProbe

\* the external forces of one evaluation of the dynamics, the kinematics
\* having put the contact frames at fs
externalForces(fs) ==
    /\ frames' = fs
    /\ fextInWorld' = [i \in ContactFrames |-> ContactLocals(fs[i], contactOptions)]
    /\ contactForces_' = [i \in ContactFrames |-> contactDynamics(fs[i], contactOptions)]
    /\ fext' = [j \in Joints |-> Accumulated([i \in ContactFrames |-> contactDynamics(fs[i], contactOptions)], j)]
    /\ UNCHANGED <<contactOptions, muProbe>>
    /\ UNCHANGED <<engineVars, runVars, nRuns, lastOp, returnCode, deviceVars, boundsVars, pythonVars>>

\* the friction coefficient probed around the speed s: its finite
\* differences over one unit of speed below and above s
probeFriction(s) ==
    /\ muProbe' = [s |-> s, below |-> frictionCoeff(s, contactOptions) - frictionCoeff(s - 1, contactOptions), above |-> frictionCoeff(s + 1, contactOptions) - frictionCoeff(s, contactOptions)]
    /\ UNCHANGED <<contactOptions, frames, fextInWorld, contactForces_, fext>>
    /\ UNCHANGED <<engineVars, runVars, nRuns, lastOp, returnCode, deviceVars, boundsVars, pythonVars>>

\* -------------------------------------------------------- boundsDynamics
\* engineOptions_->joints offered: boundStiffness and boundDamping, zero
\* included; boundTransitionEps is 2
JointOptionChoices == {[boundStiffness |-> kb, boundDamping |-> db] : kb \in {0, 2}, db \in {0, 1}}

\* model_->nv(): the rows of a generalised force
VelocityRows == 1..3

\* model_->getJointsPositionIdx() and getJointsVelocityIdx() of the two
\* actuated joints: the rows differ, and velocity row 1 has no actuated joint
jointsPositionIdx == <<3, 4>>

jointsVelocityIdx == <<2, 3>>

ActuatedJoints == 1..2

\* mdlOptions_->joints.boundsMin and boundsMax
boundsMin == <<-1, 0>>

boundsMax == <<1, 2>>

\* states offered to boundsDynamics: the configuration rows of no actuated
\* joint lie outside every limit
JointStates == {[q |-> <<5, -5, q1, q2>>, v |-> <<1, v1, v2>>] : q1 \in -3..3, q2 \in {-1, 1, 3}, v1 \in -1..1, v2 \in {-1, 1}}

\* qJointError of actuated joint i
qJointError(i, js) ==
    LET qJoint == js.q[jointsPositionIdx[i]]
    IN  IF qJoint > boundsMax[i] THEN qJoint - boundsMax[i]
        ELSE IF qJoint < boundsMin[i] THEN boundsMin[i] - qJoint
        ELSE 0

\* the damping acts whatever the direction of the motion
forceJointRawAlwaysDamped(i, js, o) ==
    LET qJoint == js.q[jointsPositionIdx[i]]
        vJoint == js.v[jointsVelocityIdx[i]]
    IN  IF qJoint > boundsMax[i] THEN -o.boundStiffness * (qJoint - boundsMax[i]) - o.boundDamping * vJoint
        ELSE IF qJoint < boundsMin[i] THEN o.boundStiffness * (boundsMin[i] - qJoint) - o.boundDamping * vJoint
        ELSE 0

\* forceJoint of actuated joint i before the blending
forceJointRaw(i, js, o) ==
    LET qJoint == js.q[jointsPositionIdx[i]]
        vJoint == js.v[jointsVelocityIdx[i]]
    IN  IF qJoint > boundsMax[i] THEN -o.boundStiffness * (qJoint - boundsMax[i]) - o.boundDamping * Max(vJoint, 0)
        ELSE IF qJoint < boundsMin[i] THEN o.boundStiffness * (boundsMin[i] - qJoint) - o.boundDamping * Min(vJoint, 0)
        ELSE 0

\* std::tanh(2 * qJointError / boundTransitionEps) in quarters, for
\* boundTransitionEps = 2
boundsBlendingLaw(e) == IF e = 0 THEN 0 ELSE IF e = 1 THEN 3 ELSE 4

\* u after the loop over the actuated joints: zero, plus the blended force
\* of each actuated joint in its velocity row
BoundsForce(js, o) == [r \in VelocityRows |-> (IF jointsVelocityIdx[1] = r THEN forceJointRaw(1, js, o) * boundsBlendingLaw(qJointError(1, js)) ELSE 0) + (IF jointsVelocityIdx[2] = r THEN forceJointRaw(2, js, o) * boundsBlendingLaw(qJointError(2, js)) ELSE 0)]

\* the joint-bound data of an engine that has evaluated no dynamics
BoundsInit(o) ==
    /\ jointOptions = o
    /\ jointState = <<>>
    /\ forceJoint = <<>>
    /\ uBounds = [r \in VelocityRows |-> 0]

\* Engine::boundsDynamics(q, v, stepperState_.uBounds)
boundsDynamics(js) ==
    /\ jointState' = js
    /\ forceJoint' = [i \in ActuatedJoints |-> forceJointRaw(i, js, jointOptions)]
    /\ uBounds' = BoundsForce(js, jointOptions)
    /\ UNCHANGED jointOptions
    /\ UNCHANGED <<engineVars, runVars, nRuns, lastOp, returnCode, contactVars, deviceVars, pythonVars>>

\* ---------------------------------------------------------- MemoryDevice
\* MemoryDevice::MemoryDevice(size)
DeviceInit(size) ==
    /\ bufferSize = size
    /\ currentPos_ = 0
    /\ ioOp = [op |-> "construct", arg |-> size, ret |-> "NONE", count |-> 0]

\* the code returned by MemoryDevice::seek
seekCode(pos) == IF pos < 0 \/ pos >= bufferSize THEN "GENERIC" ELSE "SUCCESS"

\* the process is alive: no copy out of the buffer has ended it
DeviceAlive == ioOp.ret # "CRASH"

\* MemoryDevice::seek
seek(pos) ==
    /\ DeviceAlive
    /\ currentPos_' = IF seekCode(pos) = "SUCCESS" THEN pos ELSE currentPos_
    /\ ioOp' = [op |-> "seek", arg |-> pos, ret |-> seekCode(pos), count |-> 0]
    /\ UNCHANGED bufferSize
    /\ UNCHANGED <<engineVars, runVars, nRuns, lastOp, returnCode, contactVars, boundsVars, pythonVars>>

\* bytesAvailable(): what is left of the buffer after the position
bytesAvailable == bufferSize - currentPos_

\* toRead and toWrite: bytesAvailable(), or dataSize if that is smaller
toCopy(dataSize) == IF dataSize < bytesAvailable THEN dataSize ELSE bytesAvailable

\* MemoryDevice::readData and MemoryDevice::writeData: toCopy bytes are
\* copied at the position, which moves past them.  A negative toCopy is
\* cast to std::size_t, and the copy then runs far out of the buffer:
\* either it ends the process, or the call goes on and returns
transferData(op, dataSize, crash) ==
    /\ DeviceAlive
    /\ crash \in (IF toCopy(dataSize) < 0 THEN BOOLEAN ELSE {FALSE})
    /\ currentPos_' = IF crash THEN currentPos_ ELSE currentPos_ + toCopy(dataSize)
    /\ ioOp' = [op |-> op, arg |-> dataSize, ret |-> IF crash THEN "CRASH" ELSE "NONE", count |-> IF crash THEN 0 ELSE toCopy(dataSize)]
    /\ UNCHANGED bufferSize
    /\ UNCHANGED <<engineVars, runVars, nRuns, lastOp, returnCode, contactVars, boundsVars, pythonVars>>

\* MemoryDevice::doOpen: the position is rewound unless the mode appends
doOpen(append) ==
    /\ DeviceAlive
    /\ currentPos_' = IF append THEN currentPos_ ELSE 0
    /\ ioOp' = [op |-> IF append THEN "openAppend" ELSE "open", arg |-> 0, ret |-> "SUCCESS", count |-> 0]
    /\ UNCHANGED bufferSize
    /\ UNCHANGED <<engineVars, runVars, nRuns, lastOp, returnCode, contactVars, boundsVars, pythonVars>>

\* MemoryDevice::resize: the buffer takes the new size
resize(size) ==
    /\ DeviceAlive
    /\ bufferSize' = size
    /\ ioOp' = [op |-> "resize", arg |-> size, ret |-> "NONE", count |-> 0]
    /\ UNCHANGED currentPos_
    /\ UNCHANGED <<engineVars, runVars, nRuns, lastOp, returnCode, contactVars, boundsVars, pythonVars>>

\* ------------------------------------------------- SensorsDataMapVisitor
\* sensorsDataMap_t offered: for each sensor type it holds, the names of the
\* sensors of that type; the empty map included
SensorsDataMaps == {[t \in {} |-> {}], [t \in {"imu"} |-> {"left"}], [t \in {"imu"} |-> {"left", "right"}], [t \in {"encoder"} |-> {"knee", "hip"}], [t \in {"imu", "encoder"} |-> IF t = "imu" THEN {"left", "right"} ELSE {"knee"}], [t \in {"imu", "encoder", "force"} |-> IF t = "imu" THEN {"left"} ELSE IF t = "encoder" THEN {"knee", "hip"} ELSE {"left", "right"}]}

\* the keys asked for
SensorTypes == {"imu", "encoder", "force"}

SensorNames == {"left", "right", "knee", "hip"}

\* what the dereference of the end iterator of a type's index by name can
\* produce: the end of the process, or a value read from wherever it points
EndIteratorOutcomes == {"CRASH", "GARBAGE"}

\* SensorsDataMapVisitor::contains
containsKey(self, sensorType, sensorName) == sensorType \in DOMAIN self /\ sensorName \in self[sensorType]

\* the sensors data as exposed to Python before any access
SensorsDataInit(self) == sensorsLookup = [self |-> self, op |-> "none", sensorType |-> "", sensorName |-> "", result |-> "none"]

\* SensorsDataMapVisitor::getItemSplit, which getItem calls on the two
\* fields of its tuple: self.at(sensorType) throws for an unknown type and
\* the handler sets KeyError; find(sensorName) throws nothing, and its
\* result is dereferenced without a comparison with the end iterator
getItemSplit(sensorType, sensorName, outcome) ==
    /\ outcome \in (IF sensorType \in DOMAIN sensorsLookup.self /\ sensorName \notin sensorsLookup.self[sensorType] THEN EndIteratorOutcomes ELSE {"NONE"})
    /\ sensorsLookup' = [sensorsLookup EXCEPT !.op = "getitem", !.sensorType = sensorType, !.sensorName = sensorName,
                                               !.result = IF sensorType \notin DOMAIN sensorsLookup.self THEN "KeyError"
                                                          ELSE IF sensorName \in sensorsLookup.self[sensorType] THEN "DATA"
                                                          ELSE outcome]
    /\ UNCHANGED <<formattedLog, positionLimits>>
    /\ UNCHANGED <<engineVars, runVars, nRuns, lastOp, returnCode, contactVars, deviceVars, boundsVars>>

\* __contains__ on the tuple (sensor_type, sensor_name)
contains(sensorType, sensorName) ==
    /\ sensorsLookup' = [sensorsLookup EXCEPT !.op = "contains", !.sensorType = sensorType, !.sensorName = sensorName,
                                               !.result = IF containsKey(sensorsLookup.self, sensorType, sensorName) THEN "True" ELSE "False"]
    /\ UNCHANGED <<formattedLog, positionLimits>>
    /\ UNCHANGED <<engineVars, runVars, nRuns, lastOp, returnCode, contactVars, deviceVars, boundsVars>>

\* -------------------------------------------- PyEngineVisitor::formatLog
\* the marker that ends the constants of a log header
START_COLUMNS == "StartColumns"

\* headers offered: a version line, constants, the marker, the time column,
\* the integer columns and the float columns
LogHeader(nConst, nInt, nFloat) == <<"version">> \o SubSeq(<<"dt=1">>, 1, nConst) \o <<START_COLUMNS, "Global.Time">> \o SubSeq(<<"iter", "flag">>, 1, nInt) \o SubSeq(<<"q", "v">>, 1, nFloat)

\* raw logs offered: a header, the number of timestamps, and the width of
\* each line of intData and of floatData
LogRaws == {[header |-> LogHeader(nConst, nInt, nFloat), nT |-> nT, nInt |-> nInt, nFloat |-> nFloat] : nConst \in {0, 1}, nInt \in {1, 2}, nFloat \in {1, 2}, nT \in {1, 2, 3}}

\* what a read of intData[0].size() or floatData[0].size() can produce once
\* the vector has been cleared: the size the destroyed line had, zero, or
\* the end of the process
ClearedReadOutcomes == {"STALE", "ZERO", "CRASH"}

\* lastConstantId, counted from 1: the place of the marker in the header
lastConstantId(header) == CHOOSE k \in 1..Len(header) : header[k] = START_COLUMNS /\ \A j \in 1..(k - 1) : header[j] # START_COLUMNS

\* intData[0].size() and floatData[0].size() as read by the two loops that
\* fill the dictionary
WidthRead(width, clear_memory, outcome) == IF clear_memory /\ outcome = "ZERO" THEN 0 ELSE width

\* the data dictionary: the length of the array stored under each name
LogData(raw, clear_memory, outcome) ==
    LET p == lastConstantId(raw.header)
        nInt == WidthRead(raw.nInt, clear_memory, outcome)
        nFloat == WidthRead(raw.nFloat, clear_memory, outcome)
        names == {raw.header[p + 1]} \cup {raw.header[p + 1 + i] : i \in 1..nInt} \cup {raw.header[p + 1 + nInt + i] : i \in 1..nFloat}
    IN  [n \in names |-> raw.nT]

\* the raw log handed to formatLog by getLog or parseLogBinary
LogInit(raw) == formattedLog = [raw |-> raw, clear_memory |-> FALSE, returned |-> "none", data |-> <<>>]

\* PyEngineVisitor::formatLog
formatLog(clear_memory, outcome) ==
    /\ formattedLog.returned = "none"
    /\ outcome \in (IF clear_memory THEN ClearedReadOutcomes ELSE {"NONE"})
    /\ formattedLog' = [formattedLog EXCEPT !.clear_memory = clear_memory,
                                             !.returned = IF outcome = "CRASH" THEN "CRASH" ELSE "tuple",
                                             !.data = IF outcome = "CRASH" THEN <<>> ELSE LogData(formattedLog.raw, clear_memory, outcome)]
    /\ UNCHANGED <<sensorsLookup, positionLimits>>
    /\ UNCHANGED <<engineVars, runVars, nRuns, lastOp, returnCode, contactVars, deviceVars, boundsVars>>

\* ------------------------------------------------ PyModelVisitor::visit
\* position limits of the models offered: two joints, each with a lower
\* limit below its upper limit
PositionLimits == {[min |-> <<a1, a2>>, max |-> <<b1, b2>>] : a1 \in {-2, -1}, a2 \in {-2, -1}, b1 \in {1, 2, 3}, b2 \in {1, 2, 3}}

\* the two properties of the Python class
LimitProperties == {"position_limit_upper", "position_limit_lower"}

\* Model::getPositionLimitMin and Model::getPositionLimitMax
getPositionLimitMin(limits) == limits.min

getPositionLimitMax(limits) == limits.max

\* the getter bound to each property by add_property
PropertyValue(property, limits) == IF property = "position_limit_upper" THEN getPositionLimitMin(limits) ELSE getPositionLimitMax(limits)

\* a model exposed to Python, no property read yet
ModelInit(limits) == positionLimits = [limits |-> limits, property |-> "none", value |-> <<>>]

\* a read of one of the two properties
readProperty(property) ==
    /\ positionLimits' = [positionLimits EXCEPT !.property = property, !.value = PropertyValue(property, positionLimits.limits)]
    /\ UNCHANGED <<sensorsLookup, formattedLog>>
    /\ UNCHANGED <<engineVars, runVars, nRuns, lastOp, returnCode, contactVars, deviceVars, boundsVars>>

\* ------------------------------------------------------------ initial state
\* the engine taken alone: its runs are modelled without the contact forces
\* and without a memory device, whose variables stay empty
NoContactData == contactOptions = <<>> /\ frames = <<>> /\ fextInWorld = <<>> /\ contactForces_ = <<>> /\ fext = <<>> /\ muProbe = <<>>

NoDevice == bufferSize = 0 /\ currentPos_ = 0 /\ ioOp = <<>>

NoBoundsData == jointOptions = <<>> /\ jointState = <<>> /\ forceJoint = <<>> /\ uBounds = <<>>

NoPythonData == sensorsLookup = <<>> /\ formattedLog = <<>> /\ positionLimits = <<>>

Init == EngineInit /\ NoContactData /\ NoDevice /\ NoBoundsData /\ NoPythonData

\* the locals of simulate and the observers of the run, outside a run
LocalsReleased ==
    /\ pc' = "idle"
    /\ end_time' = 0
    /\ updatePeriod' = 0
    /\ dt' = 0
    /\ current_time' = 0
    /\ next_time' = 0
    /\ fails' = 0
    /\ cbStop' = FALSE
    /\ ev' = <<>>
    /\ ctrlTimes' = {}
    /\ sensTimes' = {}
    /\ ctrlCalls' = NoCalls

\* a call of the API may start: no run in progress
CanCall == pc = "idle" /\ nRuns < MaxRuns

\* ------------------------------------------------------------ setOptions
setOptions(o) ==
    /\ CanCall
    /\ engineOptions' = o
    /\ gravity' = GravityPushed(o)
    /\ lastOp' = "setOptions"
    /\ UNCHANGED nRuns
    /\ returnCode' = "NONE"
    /\ UNCHANGED <<isInitialized_, model_, controller_, callbackFct_, stepperState_, registered, nRows, rowT, updated, sensorsT>>
    /\ UNCHANGED runVars
    /\ UNCHANGED <<contactVars, deviceVars, boundsVars, pythonVars>>

\* ------------------------------------------------------------ initialize
\* validation of the controller: the try block of initialize, ignoring an
\* exception
ValidateControllerNoCatch(c) == IF c.cmd = "badsize" \/ c.int = "badsize" THEN "BAD_INPUT" ELSE "SUCCESS"

\* validation of the controller: the try block of initialize
ValidateController(c) ==
    IF c.cmd = "throw" THEN "GENERIC"
    ELSE IF c.int = "throw" THEN "GENERIC"
    ELSE IF c.cmd = "badsize" \/ c.int = "badsize" THEN "BAD_INPUT"
    ELSE "SUCCESS"

\* the return code of initialize
InitializeCode(m, c) ==
    IF ~m.isInit THEN "INIT_FAILED"
    ELSE IF ~c.isInit THEN "INIT_FAILED"
    ELSE ValidateController(c)

initialize(m, c, cb) ==
    /\ CanCall
    /\ lastOp' = "initialize"
    /\ UNCHANGED nRuns
    /\ returnCode' = InitializeCode(m, c)
    /\ UNCHANGED engineOptions
    /\ UNCHANGED runVars
    /\ IF ~m.isInit
       THEN UNCHANGED <<gravity, isInitialized_, model_, controller_, callbackFct_, stepperState_, registered, nRows, rowT, updated, sensorsT>>
       ELSE /\ model_' = m
            /\ IF ~c.isInit
               THEN /\ stepperState_' = StepperInitialize(m)
                    /\ UNCHANGED <<gravity, isInitialized_, controller_, callbackFct_, registered, nRows, rowT, updated, sensorsT>>
               ELSE /\ stepperState_' = StepperInitialize(m)
                    /\ controller_' = IF ValidateController(c) = "SUCCESS" THEN c ELSE controller_
                    /\ callbackFct_' = IF ValidateController(c) = "SUCCESS" THEN cb ELSE callbackFct_
                    /\ isInitialized_' = IF ValidateController(c) = "SUCCESS" THEN TRUE ELSE isInitialized_
                    /\ gravity' = IF ValidateController(c) = "SUCCESS" THEN [gravity EXCEPT ![m.id] = engineOptions.gravity] ELSE gravity
                    /\ registered' = RegisteredChannels(engineOptions)
                    /\ nRows' = 0
                    /\ rowT' = NoValue
                    /\ updated' = {}
                    /\ UNCHANGED sensorsT
    /\ UNCHANGED <<contactVars, deviceVars, boundsVars, pythonVars>>


\* ------------------------------------------------------- systemDynamics
\* raw commands the controller may be asked for inside one evaluation of
\* the dynamics: it is called only when its period is below epsilon
CmdInputs(o) == IF o.controllerUpdatePeriod < Eps THEN CmdValues ELSE {NoCmd}

\* the controller methods called by one evaluation of the dynamics
DynamicsCalls(o) == IF o.controllerUpdatePeriod < Eps THEN <<"compute_command", "internalDynamics">> ELSE <<"internalDynamics">>

\* the controller is reset after the initial evaluation of the dynamics
StartCallsResetLast(o) == DynamicsCalls(o) \o <<"reset">>

\* the controller methods called by simulate before the integration loop:
\* reset, then the evaluation of the dynamics at t = 0
StartCalls(o) == <<"reset">> \o DynamicsCalls(o)

\* saturation of the command of the (single) motor to the effort limit
Saturate(m, cmd) == clamp(cmd, -effortLimit(m), effortLimit(m))

\* Engine::systemDynamics called on stepperState_.dxdt: the command is
\* refreshed in continuous controller mode, then dxdt is evaluated at xx
\* with the control force uControl
systemDynamics(ss, o, m, t, xx, cmd) ==
    LET cont == o.controllerUpdatePeriod < Eps
        uc == IF cont THEN Saturate(m, cmd) ELSE ss.uCommandLast
        u == IF cont THEN uc ELSE ss.uControl
    IN  [ss EXCEPT !.uCommandLast = uc, !.uControl = u, !.dxdt = [x |-> xx, u |-> u]]

\* the sensors after an evaluation of the dynamics at time t
SensorsAfterDynamics(o, t, old) == IF o.sensorsUpdatePeriod < Eps THEN t ELSE old

\* ----------------------------------------------- simulate: entry checks
\* end_time < 5e-2, with the bound included
EndTimeTooShortInclusive(e) == e <= MinEndTime

\* end_time < 5e-2
EndTimeTooShort(e) == e < MinEndTime

\* the code returned by the entry checks of simulate ("SUCCESS": run)
SimulateCheck(xlen, e) ==
    IF ~isInitialized_ THEN "INIT_FAILED"
    ELSE IF xlen # nx(model_) THEN "BAD_INPUT"
    ELSE IF EndTimeTooShort(e) THEN "BAD_INPUT"
    ELSE "SUCCESS"

\* the period of the break-points of the integration loop
UpdatePeriod(o) ==
    IF o.sensorsUpdatePeriod < Eps THEN o.controllerUpdatePeriod
    ELSE IF o.controllerUpdatePeriod < Eps THEN o.sensorsUpdatePeriod
    ELSE Min(o.sensorsUpdatePeriod, o.controllerUpdatePeriod)

\* the initial time step
InitialDt(p) == IF p > 0 THEN p ELSE InitDt

\* simulate rejected by one of its entry checks
simulateRejected(xlen, e) ==
    /\ CanCall
    /\ SimulateCheck(xlen, e) # "SUCCESS"
    /\ lastOp' = "simulate"
    /\ returnCode' = SimulateCheck(xlen, e)
    /\ UNCHANGED nRuns
    /\ UNCHANGED engineVars
    /\ UNCHANGED runVars
    /\ UNCHANGED <<contactVars, deviceVars, boundsVars, pythonVars>>

\* simulate up to the entry of the integration loop
simulateStart(xlen, e, cmd) ==
    /\ CanCall
    /\ SimulateCheck(xlen, e) = "SUCCESS"
    /\ cmd \in CmdInputs(engineOptions)
    /\ lastOp' = "simulate"
    /\ returnCode' = "NONE"
    /\ nRuns' = nRuns + 1
    /\ stepperState_' = systemDynamics(StepperInitialize(model_), engineOptions, model_, 0, 0, cmd)
    /\ sensorsT' = SensorsAfterDynamics(engineOptions, 0, NoValue)
    /\ nRows' = 0
    /\ rowT' = NoValue
    /\ updated' = {}
    /\ end_time' = e
    /\ updatePeriod' = UpdatePeriod(engineOptions)
    /\ dt' = InitialDt(UpdatePeriod(engineOptions))
    /\ current_time' = 0
    /\ next_time' = 0
    /\ fails' = 0
    /\ cbStop' = FALSE
    /\ ev' = <<>>
    /\ ctrlTimes' = {}
    /\ sensTimes' = {}
    /\ ctrlCalls' = CalledAll(NoCalls, StartCalls(engineOptions))
    /\ pc' = "publish"
    /\ UNCHANGED <<engineOptions, gravity, isInitialized_, model_, controller_, callbackFct_, registered>>
    /\ UNCHANGED <<contactVars, deviceVars, boundsVars, pythonVars>>

\* ------------------------------------------- simulate: integration loop
\* the channels whose values the loop entry updates before the row is
\* flushed: each state channel under its current flag, and the energy
UpdatedChannels(o) == (IF o.logConfiguration THEN {"q"} ELSE {}) \cup (IF o.logVelocity THEN {"v"} ELSE {}) \cup (IF o.logAcceleration THEN {"a"} ELSE {}) \cup (IF o.logCommand THEN {"uCommand"} ELSE {}) \cup {"energy"}

\* the row is stamped with the iteration counter
RowStampIteration(ss) == ss.iterLast

\* the argument of flushDataSnapshot: the time of the snapshot
RowStamp(ss) == ss.tLast

\* the telemetry row flushed at the entry of an outer iteration
Publish ==
    /\ pc = "publish"
    /\ nRows' = nRows + 1
    /\ rowT' = RowStamp(stepperState_)
    /\ updated' = UpdatedChannels(engineOptions)
    /\ ev' = <<"publish">>
    /\ pc' = "check"
    /\ UNCHANGED <<engineOptions, gravity, isInitialized_, model_, controller_, callbackFct_, stepperState_, registered, sensorsT>>
    /\ UNCHANGED <<end_time, updatePeriod, dt, current_time, next_time, fails, cbStop, ctrlTimes, sensTimes>>
    /\ UNCHANGED <<nRuns, lastOp, returnCode, ctrlCalls>>
    /\ UNCHANGED <<contactVars, deviceVars, boundsVars, pythonVars>>

\* the end time counts as reached one tick too early
EndReachedInclusive(e, t) == Abs(e - t) <= Eps

\* std::abs(end_time - current_time) < epsilon
EndReached(e, t) == Abs(e - t) < Eps

\* the cap is tested with > instead of >=
IterCapReachedStrict(iter) == iter > MAX_ITERS

\* stepperState_.iterLast >= 1e5
IterCapReached(iter) == iter >= MAX_ITERS

\* the callback's answer is ignored
StopRequestedIgnoringCallback(reached, cbOk, iter) == reached \/ IterCapReached(iter)

\* the condition of the break
StopRequested(reached, cbOk, iter) == reached \/ ~cbOk \/ IterCapReached(iter)

\* answers the callback may give; it is not called once the end time is
\* reached (short-circuit), and the default callback always answers true
CallbackAnswers == IF EndReached(end_time, current_time) \/ callbackFct_ = "cbDefault" THEN {TRUE} ELSE BOOLEAN

CheckTermination(cbOk) ==
    /\ pc = "check"
    /\ cbOk \in CallbackAnswers
    /\ cbStop' = ~cbOk
    /\ ev' = Append(ev, "check")
    /\ pc' = IF StopRequested(EndReached(end_time, current_time), cbOk, stepperState_.iterLast) THEN "exit" ELSE "advance"
    /\ UNCHANGED engineVars
    /\ UNCHANGED <<end_time, updatePeriod, dt, current_time, next_time, fails, ctrlTimes, sensTimes>>
    /\ UNCHANGED <<nRuns, lastOp, returnCode, ctrlCalls>>
    /\ UNCHANGED <<contactVars, deviceVars, boundsVars, pythonVars>>

\* next_time is assigned instead of incremented
NextTimeAssigned(nt, p, e) == Min(p, e - nt)

\* next_time += std::min(updatePeriod, end_time - current_time), where
\* current_time has just been set to nt
NextTime(nt, p, e) == nt + Min(p, e - nt)

\* whether time t coincides with a multiple of the period p > 0
Coincides(t, p) == Abs(t - RoundToMultiple(t, p)) < Tol

\* break-point mode: the target of the iteration and the sensor refresh
AdvanceBreakPoint ==
    /\ pc = "advance"
    /\ updatePeriod > 0
    /\ current_time' = next_time
    /\ next_time' = NextTime(next_time, updatePeriod, end_time)
    /\ LET due == engineOptions.sensorsUpdatePeriod > 0 /\ Coincides(next_time, engineOptions.sensorsUpdatePeriod)
       IN  /\ sensorsT' = IF due THEN stepperState_.tLast ELSE sensorsT
           /\ sensTimes' = IF due THEN sensTimes \cup {next_time} ELSE sensTimes
           /\ ev' = IF due THEN Append(ev, "sensor") ELSE ev
    /\ pc' = "ctrl"
    /\ UNCHANGED <<engineOptions, gravity, isInitialized_, model_, controller_, callbackFct_, stepperState_, registered, nRows, rowT, updated>>
    /\ UNCHANGED <<end_time, updatePeriod, dt, fails, cbStop, ctrlTimes>>
    /\ UNCHANGED <<nRuns, lastOp, returnCode, ctrlCalls>>
    /\ UNCHANGED <<contactVars, deviceVars, boundsVars, pythonVars>>

\* the dynamics are not re-evaluated after the controller has been called
AfterControllerNoRefresh(due) == "step"

\* where the loop goes after the controller block: the re-evaluation of the
\* dynamics belongs to the branch in which the controller has been called
AfterController(due) == IF due THEN "refresh" ELSE "step"

\* break-point mode: the controller is called if the time coincides with a
\* multiple of its period, and its command is saturated and scattered
ControllerUpdate(cmd) ==
    /\ pc = "ctrl"
    /\ LET due == engineOptions.controllerUpdatePeriod > 0 /\ Coincides(current_time, engineOptions.controllerUpdatePeriod)
       IN  /\ cmd \in (IF due THEN CmdValues ELSE {NoCmd})
           /\ stepperState_' = IF due THEN [stepperState_ EXCEPT !.uCommandLast = Saturate(model_, cmd), !.uControl = Saturate(model_, cmd)] ELSE stepperState_
           /\ ctrlTimes' = IF due THEN ctrlTimes \cup {current_time} ELSE ctrlTimes
           /\ ev' = IF due THEN ev \o <<"ctrl", "saturate">> ELSE ev
           /\ ctrlCalls' = IF due THEN Called(ctrlCalls, "compute_command") ELSE ctrlCalls
           /\ pc' = AfterController(due)
    /\ UNCHANGED <<engineOptions, gravity, isInitialized_, model_, controller_, callbackFct_, registered, nRows, rowT, updated, sensorsT>>
    /\ UNCHANGED <<end_time, updatePeriod, dt, current_time, next_time, fails, cbStop, sensTimes>>
    /\ UNCHANGED <<nRuns, lastOp, returnCode>>
    /\ UNCHANGED <<contactVars, deviceVars, boundsVars, pythonVars>>

\* break-point mode: systemDynamics(current_time, x, dxdt) after a call of
\* the controller
RefreshDxdt(cmd) ==
    /\ pc = "refresh"
    /\ cmd \in CmdInputs(engineOptions)
    /\ stepperState_' = systemDynamics(stepperState_, engineOptions, model_, current_time, stepperState_.x, cmd)
    /\ sensorsT' = SensorsAfterDynamics(engineOptions, current_time, sensorsT)
    /\ ctrlCalls' = CalledAll(ctrlCalls, DynamicsCalls(engineOptions))
    /\ ev' = Append(ev, "dxdt")
    /\ pc' = "step"
    /\ UNCHANGED <<engineOptions, gravity, isInitialized_, model_, controller_, callbackFct_, registered, nRows, rowT, updated>>
    /\ UNCHANGED <<end_time, updatePeriod, dt, current_time, next_time, fails, cbStop, ctrlTimes, sensTimes>>
    /\ UNCHANGED <<nRuns, lastOp, returnCode>>
    /\ UNCHANGED <<contactVars, deviceVars, boundsVars, pythonVars>>


\* ------------------------------------------------- the controlled stepper
\* step sizes the step-size controller may propose after an accepted step
\* of size h: the same size or a larger one
Grow(h) == {h, Max(h, Min(2 * h, MaxDt))}

\* the step size proposed after a rejected step of size h: a smaller one,
\* down to the resolution of the tick grid
Shrink(h) == Max(1, h \div 2)

\* the counter of the failed-step checker is never reset
FailsAfterNoReset(ok, f) == f + 1

\* the counter of the failed-step checker after a trial step: reset() after
\* an accepted step, operator() after a rejected one
FailsAfter(ok, f) == IF ok THEN 0 ELSE f + 1

\* the event list of the current outer iteration, consecutive trial steps
\* being recorded once
WithStep(e) == IF Len(e) > 0 /\ e[Len(e)] = "step" THEN e ELSE Append(e, "step")

\* stepperState_ after an accepted try_step of size h from current_time: the
\* dynamics have been evaluated, the last time at the new state, whose
\* derivative is kept in dxdt
Accepted(ss, h, cmd) == [systemDynamics(ss, engineOptions, model_, current_time + h, ss.x + h, cmd) EXCEPT !.x = ss.x + h]

\* stepperState_ after a rejected try_step: x and dxdt are kept, the side
\* effects of the evaluations of the dynamics stay
Rejected(ss, h, cmd) == [systemDynamics(ss, engineOptions, model_, current_time + h, ss.x + h, cmd) EXCEPT !.dxdt = ss.dxdt]

\* the trial step is not cut at the break-point
TrialStepUncut(h, rest) == h

\* float64_t current_dt = std::min(dt, next_time - current_time)
TrialStep(h, rest) == Min(h, rest)

\* break-point mode: one trial step of the inner loop
StepBreakPoint(ok, cmd, g) ==
    /\ pc = "step"
    /\ current_time < next_time
    /\ cmd \in CmdInputs(engineOptions)
    /\ LET current_dt == TrialStep(dt, next_time - current_time)
       IN  /\ g \in Grow(current_dt)
           /\ ok \/ (g = current_dt /\ fails < MaxFailedSteps)
           /\ sensorsT' = SensorsAfterDynamics(engineOptions, current_time + current_dt, sensorsT)
           /\ IF ok
              THEN /\ stepperState_' = Accepted(stepperState_, current_dt, cmd)
                   /\ current_time' = current_time + current_dt
                   /\ fails' = FailsAfter(TRUE, fails)
                   /\ dt' = Max(dt, g)
              ELSE /\ stepperState_' = Rejected(stepperState_, current_dt, cmd)
                   /\ fails' = FailsAfter(FALSE, fails)
                   /\ dt' = Shrink(current_dt)
                   /\ UNCHANGED current_time
    /\ ctrlCalls' = CalledAll(ctrlCalls, DynamicsCalls(engineOptions))
    /\ ev' = WithStep(ev)
    /\ UNCHANGED <<engineOptions, gravity, isInitialized_, model_, controller_, callbackFct_, registered, nRows, rowT, updated>>
    /\ UNCHANGED <<pc, end_time, updatePeriod, next_time, cbStop, ctrlTimes, sensTimes>>
    /\ UNCHANGED <<nRuns, lastOp, returnCode>>
    /\ UNCHANGED <<contactVars, deviceVars, boundsVars, pythonVars>>

\* break-point mode: the inner loop ends once the target is reached
StepLoopExit ==
    /\ pc = "step"
    /\ ~(current_time < next_time)
    /\ pc' = "post"
    /\ UNCHANGED engineVars
    /\ UNCHANGED <<end_time, updatePeriod, dt, current_time, next_time, fails, cbStop, ev, ctrlTimes, sensTimes>>
    /\ UNCHANGED <<nRuns, lastOp, returnCode, ctrlCalls>>
    /\ UNCHANGED <<contactVars, deviceVars, boundsVars, pythonVars>>

\* free adaptive mode: the step size is clipped to the remaining time
AdvanceFree ==
    /\ pc = "advance"
    /\ ~(updatePeriod > 0)
    /\ dt' = Min(dt, end_time - current_time)
    /\ pc' = "fstep"
    /\ UNCHANGED engineVars
    /\ UNCHANGED <<end_time, updatePeriod, current_time, next_time, fails, cbStop, ev, ctrlTimes, sensTimes>>
    /\ UNCHANGED <<nRuns, lastOp, returnCode, ctrlCalls>>
    /\ UNCHANGED <<contactVars, deviceVars, boundsVars, pythonVars>>

\* free adaptive mode: one trial step, repeated until one is accepted
StepFree(ok, cmd, g) ==
    /\ pc = "fstep"
    /\ cmd \in CmdInputs(engineOptions)
    /\ g \in Grow(dt)
    /\ ok \/ (g = dt /\ fails < MaxFailedSteps)
    /\ sensorsT' = SensorsAfterDynamics(engineOptions, current_time + dt, sensorsT)
    /\ IF ok
       THEN /\ stepperState_' = Accepted(stepperState_, dt, cmd)
            /\ current_time' = current_time + dt
            /\ fails' = FailsAfter(TRUE, fails)
            /\ dt' = g
            /\ pc' = "post"
       ELSE /\ stepperState_' = Rejected(stepperState_, dt, cmd)
            /\ fails' = FailsAfter(FALSE, fails)
            /\ dt' = Shrink(dt)
            /\ UNCHANGED <<current_time, pc>>
    /\ ctrlCalls' = CalledAll(ctrlCalls, DynamicsCalls(engineOptions))
    /\ ev' = WithStep(ev)
    /\ UNCHANGED <<engineOptions, gravity, isInitialized_, model_, controller_, callbackFct_, registered, nRows, rowT, updated>>
    /\ UNCHANGED <<end_time, updatePeriod, next_time, cbStop, ctrlTimes, sensTimes>>
    /\ UNCHANGED <<nRuns, lastOp, returnCode>>
    /\ UNCHANGED <<contactVars, deviceVars, boundsVars, pythonVars>>

\* either mode: a trial step is rejected when the failed-step checker has
\* already counted its quota of consecutive rejects; it throws and the
\* exception leaves simulate
FailedStepOverflow(cmd) ==
    /\ pc \in {"step", "fstep"}
    /\ pc = "step" => current_time < next_time
    /\ fails >= MaxFailedSteps
    /\ cmd \in CmdInputs(engineOptions)
    /\ LET h == IF pc = "step" THEN TrialStep(dt, next_time - current_time) ELSE dt
       IN  /\ stepperState_' = Rejected(stepperState_, h, cmd)
           /\ sensorsT' = SensorsAfterDynamics(engineOptions, current_time + h, sensorsT)
    /\ returnCode' = "RUNTIME_ERROR"
    /\ LocalsReleased
    /\ UNCHANGED <<engineOptions, gravity, isInitialized_, model_, controller_, callbackFct_, registered, nRows, rowT, updated>>
    /\ UNCHANGED <<nRuns, lastOp>>
    /\ UNCHANGED <<contactVars, deviceVars, boundsVars, pythonVars>>

\* after the stepping: inverse dynamics, energy and the snapshot update
PostStep ==
    /\ pc = "post"
    /\ stepperState_' = updateLast(stepperState_, current_time, stepperState_.x, stepperState_.dxdt, stepperState_.dxdt, stepperState_.uCommandLast, stepperState_.x)
    /\ ev' = ev \o <<"rnea", "energy", "update">>
    /\ pc' = "publish"
    /\ UNCHANGED <<engineOptions, gravity, isInitialized_, model_, controller_, callbackFct_, registered, nRows, rowT, updated, sensorsT>>
    /\ UNCHANGED <<end_time, updatePeriod, dt, current_time, next_time, fails, cbStop, ctrlTimes, sensTimes>>
    /\ UNCHANGED <<nRuns, lastOp, returnCode, ctrlCalls>>
    /\ UNCHANGED <<contactVars, deviceVars, boundsVars, pythonVars>>

\* the break of the loop: simulate returns returnCode, still SUCCESS
Exit ==
    /\ pc = "exit"
    /\ returnCode' = "SUCCESS"
    /\ LocalsReleased
    /\ UNCHANGED engineVars
    /\ UNCHANGED <<nRuns, lastOp>>
    /\ UNCHANGED <<contactVars, deviceVars, boundsVars, pythonVars>>

Next ==
    \/ \E o \in OptionChoices : setOptions(o)
    \/ \E m \in Models, c \in Controllers : initialize(m, c, "cbUser")
    \/ \E xlen \in XLens, e \in EndTimes : simulateRejected(xlen, e)
    \/ \E xlen \in XLens, e \in EndTimes, cmd \in CmdValues \cup {NoCmd} : simulateStart(xlen, e, cmd)
    \/ Publish
    \/ \E cbOk \in BOOLEAN : CheckTermination(cbOk)
    \/ AdvanceBreakPoint
    \/ \E cmd \in CmdValues \cup {NoCmd} : ControllerUpdate(cmd)
    \/ \E cmd \in CmdValues \cup {NoCmd} : RefreshDxdt(cmd)
    \/ \E ok \in BOOLEAN, cmd \in CmdValues \cup {NoCmd}, g \in 1..(MaxDt + 1) : StepBreakPoint(ok, cmd, g)
    \/ StepLoopExit
    \/ AdvanceFree
    \/ \E ok \in BOOLEAN, cmd \in CmdValues \cup {NoCmd}, g \in 1..(MaxDt + 1) : StepFree(ok, cmd, g)
    \/ \E cmd \in CmdValues \cup {NoCmd} : FailedStepOverflow(cmd)
    \/ PostStep
    \/ Exit

Spec == Init /\ [][Next]_vars

\* the same engine, its options being drawn from GravityOptionChoices
NextGravity ==
    \/ \E o \in GravityOptionChoices : setOptions(o)
    \/ \E m \in Models, c \in Controllers : initialize(m, c, "cbUser")
    \/ \E xlen \in XLens, e \in EndTimes : simulateRejected(xlen, e)
    \/ \E xlen \in XLens, e \in EndTimes, cmd \in CmdValues \cup {NoCmd} : simulateStart(xlen, e, cmd)
    \/ Publish
    \/ \E cbOk \in BOOLEAN : CheckTermination(cbOk)
    \/ AdvanceBreakPoint
    \/ \E cmd \in CmdValues \cup {NoCmd} : ControllerUpdate(cmd)
    \/ \E cmd \in CmdValues \cup {NoCmd} : RefreshDxdt(cmd)
    \/ \E ok \in BOOLEAN, cmd \in CmdValues \cup {NoCmd}, g \in 1..(MaxDt + 1) : StepBreakPoint(ok, cmd, g)
    \/ StepLoopExit
    \/ AdvanceFree
    \/ \E ok \in BOOLEAN, cmd \in CmdValues \cup {NoCmd}, g \in 1..(MaxDt + 1) : StepFree(ok, cmd, g)
    \/ \E cmd \in CmdValues \cup {NoCmd} : FailedStepOverflow(cmd)
    \/ PostStep
    \/ Exit

SpecGravity == Init /\ [][NextGravity]_vars

\* the engine under options that differ in the telemetry flags
NextTelemetry ==
    \/ \E o \in TelemetryOptionChoices : setOptions(o)
    \/ \E m \in Models, c \in Controllers : initialize(m, c, "cbUser")
    \/ \E xlen \in XLens, e \in EndTimes : simulateRejected(xlen, e)
    \/ \E xlen \in XLens, e \in EndTimes, cmd \in CmdValues \cup {NoCmd} : simulateStart(xlen, e, cmd)
    \/ Publish
    \/ \E cbOk \in BOOLEAN : CheckTermination(cbOk)
    \/ AdvanceBreakPoint
    \/ \E cmd \in CmdValues \cup {NoCmd} : ControllerUpdate(cmd)
    \/ \E cmd \in CmdValues \cup {NoCmd} : RefreshDxdt(cmd)
    \/ \E ok \in BOOLEAN, cmd \in CmdValues \cup {NoCmd}, g \in 1..(MaxDt + 1) : StepBreakPoint(ok, cmd, g)
    \/ StepLoopExit
    \/ AdvanceFree
    \/ \E ok \in BOOLEAN, cmd \in CmdValues \cup {NoCmd}, g \in 1..(MaxDt + 1) : StepFree(ok, cmd, g)
    \/ \E cmd \in CmdValues \cup {NoCmd} : FailedStepOverflow(cmd)
    \/ PostStep
    \/ Exit

SpecTelemetry == Init /\ [][NextTelemetry]_vars

\* the contact model alone: any contact options, any kinematics
InitContact == EngineInit /\ NoDevice /\ NoBoundsData /\ NoPythonData /\ \E o \in ContactOptionChoices : ContactInit(o)

NextContact == \E f1 \in FrameStates, f2 \in FrameStates : externalForces(<<f1, f2>>)

SpecContact == InitContact /\ [][NextContact]_vars

\* the friction law alone: any contact options, any speed probed
NextFriction == \E s \in ProbeSpeeds : probeFriction(s)

SpecFriction == InitContact /\ [][NextFriction]_vars

\* a memory device alone
InitDevice == EngineInit /\ NoContactData /\ NoBoundsData /\ NoPythonData /\ \E size \in 0..MaxSize : DeviceInit(size)

NextDevice ==
    \/ \E pos \in -1..(MaxSize + 1) : seek(pos)
    \/ \E dataSize \in 0..MaxSize, crash \in BOOLEAN : transferData("read", dataSize, crash)
    \/ \E dataSize \in 0..MaxSize, crash \in BOOLEAN : transferData("write", dataSize, crash)
    \/ \E append \in BOOLEAN : doOpen(append)
    \/ \E size \in 0..MaxSize : resize(size)

SpecDevice == InitDevice /\ [][NextDevice]_vars

\* the joint-bound model alone: any joint options, any joint state
InitBounds == EngineInit /\ NoContactData /\ NoDevice /\ NoPythonData /\ \E o \in JointOptionChoices : BoundsInit(o)

NextBounds == \E js \in JointStates : boundsDynamics(js)

SpecBounds == InitBounds /\ [][NextBounds]_vars

\* a sensors-data map alone, under any access
InitSensorsData == EngineInit /\ NoContactData /\ NoDevice /\ NoBoundsData /\ formattedLog = <<>> /\ positionLimits = <<>> /\ \E self \in SensorsDataMaps : SensorsDataInit(self)

NextSensorsData ==
    \/ \E sensorType \in SensorTypes, sensorName \in SensorNames, outcome \in EndIteratorOutcomes \cup {"NONE"} : getItemSplit(sensorType, sensorName, outcome)
    \/ \E sensorType \in SensorTypes, sensorName \in SensorNames : contains(sensorType, sensorName)

SpecSensorsData == InitSensorsData /\ [][NextSensorsData]_vars

\* formatLog alone, on any raw log
InitLog == EngineInit /\ NoContactData /\ NoDevice /\ NoBoundsData /\ sensorsLookup = <<>> /\ positionLimits = <<>> /\ \E raw \in LogRaws : LogInit(raw)

NextLog == \E clear_memory \in BOOLEAN, outcome \in ClearedReadOutcomes \cup {"NONE"} : formatLog(clear_memory, outcome)

SpecLog == InitLog /\ [][NextLog]_vars

\* the position limits of a model read from Python
InitLimits == EngineInit /\ NoContactData /\ NoDevice /\ NoBoundsData /\ sensorsLookup = <<>> /\ formattedLog = <<>> /\ \E limits \in PositionLimits : ModelInit(limits)

NextLimits == \E property \in LimitProperties : readProperty(property)

SpecLimits == InitLimits /\ [][NextLimits]_vars

TypeOK ==
    /\ pc \in {"idle", "publish", "check", "advance", "ctrl", "refresh", "step", "fstep", "post", "exit"}
    /\ fails \in 0..MaxFailedSteps
    /\ nRuns \in 0..MaxRuns
    /\ current_time \in 0..20
    /\ stepperState_.iterLast \in 0..MAX_ITERS


\* ================================================================ claims
Running == pc # "idle"

\* the run is at its break, ended neither by the callback nor by the cap
EndedByTime == pc = "exit" /\ ~cbStop /\ stepperState_.iterLast < MAX_ITERS

\* C1 (as stated): in every run that the callback did not stop, the time of
\* the final published snapshot equals end_time within epsilon.
C1_LandingAsStated == (pc = "exit" /\ ~cbStop) => Abs(end_time - rowT) < Eps

\* C1 (amended): in every run that reaches its break without the callback
\* having returned false and with the iteration counter below the cap, the
\* final published row carries the last snapshot, whose time equals end_time
\* within epsilon.
C1_Landing == EndedByTime => (rowT = stepperState_.tLast /\ Abs(end_time - rowT) < Eps)

\* C1 witness: a break-point run whose end time is no multiple of the period
\* has landed on its end time.
C1_Witness == EndedByTime /\ updatePeriod = 12 /\ end_time = 20 /\ rowT = 20

\* C2: a break-point run that is not stopped early calls the controller at
\* every multiple of controllerUpdatePeriod and refreshes the sensors at
\* every multiple of sensorsUpdatePeriod (stated here for the multiples
\* before end_time, where an outer iteration still follows).
C2_EveryMultipleServed ==
    (EndedByTime /\ updatePeriod > 0) =>
        \A k \in 0..20 :
            /\ (engineOptions.controllerUpdatePeriod >= Eps /\ k * engineOptions.controllerUpdatePeriod < end_time) => k * engineOptions.controllerUpdatePeriod \in ctrlTimes
            /\ (engineOptions.sensorsUpdatePeriod >= Eps /\ k * engineOptions.sensorsUpdatePeriod < end_time) => k * engineOptions.sensorsUpdatePeriod \in sensTimes

\* C3: within a run, each telemetry row after the first carries a time
\* strictly greater than the row before it.
C3_RowTimesIncrease == [][(nRows' = nRows + 1 /\ nRows >= 1) => rowT' > rowT]_vars

\* C3 witness: a run in free adaptive mode has recorded its third row.
C3_Witness == pc = "check" /\ updatePeriod = 0 /\ nRows = 3 /\ rowT > 0

\* C4: during a run the command of the snapshot, which is the value every
\* row publishes, is within the effort limit of the model in use, and the
\* control force of the actuated joint equals it.
C4_CommandSaturated == Running => (Abs(stepperState_.uCommandLast) <= effortLimit(model_) /\ stepperState_.uControl = stepperState_.uCommandLast)

\* C4 witness: a row after the first has just been published with the
\* command at the lower effort limit, in continuous controller mode.
C4_Witness == pc = "check" /\ nRows >= 2 /\ engineOptions.controllerUpdatePeriod = 0 /\ stepperState_.uCommandLast = -effortLimit(model_)

\* the place of an event in the order of one outer iteration
Rank(e) == CASE e = "publish" -> 1 [] e = "check" -> 2 [] e = "sensor" -> 3 [] e = "ctrl" -> 4 [] e = "saturate" -> 5 [] e = "dxdt" -> 6 [] e = "step" -> 7 [] e = "rnea" -> 8 [] e = "energy" -> 9 [] e = "update" -> 10

EventsOf(e) == {e[i] : i \in 1..Len(e)}

\* C5: the events of one outer iteration occur in the order publish, check,
\* sensor refresh, controller call, saturation, dxdt refresh, stepping,
\* inverse dynamics, energy, snapshot update; a controller call is followed
\* by the saturation and the dxdt refresh before any trial step.
C5_IterationOrder ==
    /\ \A i \in 1..(Len(ev) - 1) : Rank(ev[i]) < Rank(ev[i + 1])
    /\ Len(ev) >= 1 => ev[1] = "publish"
    /\ Len(ev) >= 2 => ev[2] = "check"
    /\ \A i \in 1..Len(ev) : ev[i] = "ctrl" => ((i + 1 <= Len(ev) => ev[i + 1] = "saturate") /\ (i + 2 <= Len(ev) => ev[i + 2] = "dxdt"))
    /\ "update" \in EventsOf(ev) => {"step", "rnea", "energy"} \subseteq EventsOf(ev)
    /\ (pc = "step" /\ "ctrl" \in EventsOf(ev)) => stepperState_.dxdt = [x |-> stepperState_.x, u |-> stepperState_.uControl] \/ "step" \in EventsOf(ev)

\* C5 witness: an outer iteration in which every event has occurred.
C5_Witness == ev = <<"publish", "check", "sensor", "ctrl", "saturate", "dxdt", "step", "rnea", "energy", "update">>

\* C6: once the callback has returned false the snapshot of the iteration
\* is already published, and the only thing that follows is the return of
\* simulate with SUCCESS, the engine state being left as it is.
C6_CooperativeCancellation ==
    [][cbStop => (/\ pc = "exit"
                  /\ rowT = stepperState_.tLast
                  /\ nRows = stepperState_.iterLast + 1
                  /\ pc' = "idle"
                  /\ returnCode' = "SUCCESS"
                  /\ UNCHANGED engineVars)]_vars

\* C6 witness: the callback has returned false after at least one step.
C6_Witness == cbStop /\ pc = "exit" /\ nRows >= 2 /\ stepperState_.x > 0

\* C7: the iteration counter never exceeds the cap, and once it has reached
\* the cap the run only publishes, checks and breaks.
C7_StepCap ==
    /\ stepperState_.iterLast <= MAX_ITERS
    /\ (Running /\ stepperState_.iterLast >= MAX_ITERS) => pc \in {"publish", "check", "exit"}

\* C7 witness: a run has been ended by the cap before its end time.
C7_Witness == pc = "exit" /\ stepperState_.iterLast = MAX_ITERS /\ ~cbStop /\ current_time < end_time - Eps

\* a step that is the call simulate(x_init of size xlen, e)
simulateCalled(xlen, e) == simulateRejected(xlen, e) \/ \E cmd \in CmdValues \cup {NoCmd} : simulateStart(xlen, e, cmd)

\* C8: a call of simulate returns INIT_FAILED on an engine that is not
\* initialised, else BAD_INPUT for an x_init of the wrong size, else
\* BAD_INPUT for an end time below the minimum, and runs otherwise (the
\* minimum itself is accepted); a rejected call changes nothing in the
\* engine and starts no run.
C8_SimulateValidation ==
    [][(pc = "idle" /\ lastOp' = "simulate") => \A xlen \in XLens, e \in EndTimes : simulateCalled(xlen, e) =>
        /\ ~isInitialized_ => returnCode' = "INIT_FAILED"
        /\ (isInitialized_ /\ xlen # nx(model_)) => returnCode' = "BAD_INPUT"
        /\ (isInitialized_ /\ xlen = nx(model_) /\ e < MinEndTime) => returnCode' = "BAD_INPUT"
        /\ (isInitialized_ /\ xlen = nx(model_) /\ e >= MinEndTime) => (pc' = "publish" /\ returnCode' = "NONE" /\ end_time' = e)
        /\ returnCode' # "NONE" => (pc' = "idle" /\ UNCHANGED engineVars /\ UNCHANGED runVars /\ UNCHANGED nRuns)]_vars

\* C8 witness: an initialised engine has rejected a call of simulate for
\* its arguments.
C8_Witness == isInitialized_ /\ pc = "idle" /\ lastOp = "simulate" /\ returnCode = "BAD_INPUT" /\ nRows = 0

\* C9: a call of initialize that returns an error leaves the model pointer,
\* the controller pointer, the callback, the stepper state, the telemetry
\* registration and the initialised flag unchanged.
C9_FailedInitializeKeepsState ==
    [][(pc = "idle" /\ lastOp' = "initialize") => \A m \in Models, c \in Controllers : (initialize(m, c, "cbUser") /\ returnCode' # "SUCCESS") => UNCHANGED <<model_, controller_, callbackFct_, stepperState_, registered, isInitialized_>>]_vars

C11_ResetOnceFirst ==
    [][/\ Running' => (ctrlCalls'.reset = 1 /\ ~ctrlCalls'.early)
       /\ (pc = "idle" /\ pc' = "idle" /\ lastOp' = "simulate") => ctrlCalls'.reset = 0]_vars

\* C11 witness: a run whose controller is called by every evaluation of the
\* dynamics has recorded its second row.
C11_Witness == pc = "check" /\ nRows >= 2 /\ ctrlCalls.reset = 1 /\ engineOptions.controllerUpdatePeriod = 0

\* the outer period the specification gives for the sensor period ds and
\* the controller period dc
StatedPeriod(ds, dc) ==
    IF ds <= Eps /\ dc > Eps THEN dc
    ELSE IF dc <= Eps /\ ds > Eps THEN ds
    ELSE IF ds > Eps /\ dc > Eps THEN Min(ds, dc)
    ELSE 0

\* C13: the outer period of a run is the controller period if only the
\* sensor period is at most epsilon, the sensor period if only the
\* controller period is at most epsilon, the smaller of the two if both
\* exceed epsilon, and 0 (free adaptive mode) if both are at most epsilon,
\* periods strictly between 0 and epsilon included.
C13_OuterPeriod == Running => updatePeriod = StatedPeriod(engineOptions.sensorsUpdatePeriod, engineOptions.controllerUpdatePeriod)

\* the fields of the last-published snapshot: t, (q, v), a, u, u_cmd, E, iter
SnapshotOf(ss) == <<ss.tLast, ss.xLast, ss.aLast, ss.uLast, ss.uCommandLast, ss.energyLast, ss.iterLast>>

\* C14: inside a run, a field of the last-published snapshot changes only
\* in the snapshot update that follows an accepted step: not in a call of
\* the controller, an evaluation of the dynamics or a rejected trial step.
C14_SnapshotOnlyAfterStep == [][(Running /\ Running' /\ SnapshotOf(stepperState_') # SnapshotOf(stepperState_)) => pc = "post"]_vars

\* the run is at a trial step
Stepping == pc \in {"step", "fstep"}

\* C15: in both stepping modes an accepted step resets the reject counter to
\* zero and a rejected trial step adds one to it; the run ends with the
\* fatal runtime error exactly when a trial step is rejected while the
\* counter is at the threshold, that is when the consecutive rejects exceed
\* it; the rows recorded before the error are kept.
C15_FailureLimiter ==
    [][/\ (Stepping /\ current_time' > current_time) => fails' = 0
       /\ (Stepping /\ pc' = pc /\ current_time' = current_time) => (fails < MaxFailedSteps /\ fails' = fails + 1)
       /\ (Running /\ returnCode' = "RUNTIME_ERROR") => (Stepping /\ fails = MaxFailedSteps /\ pc' = "idle" /\ nRows' = nRows /\ rowT' = rowT)
       /\ (Stepping /\ fails = MaxFailedSteps /\ current_time' = current_time /\ pc' # "post") => returnCode' = "RUNTIME_ERROR"]_vars

\* C15 witness: a run in break-point mode has been aborted by the error in
\* its second outer iteration or later, after an accepted step of the same
\* iteration.
C15_Witness == pc = "idle" /\ returnCode = "RUNTIME_ERROR" /\ nRows >= 2 /\ stepperState_.x > stepperState_.tLast

\* C16: whenever a run is in progress, the model it simulates carries the
\* gravity of the engine's current options, whatever setOptions and
\* initialize calls came before the simulate call.
C16_GravityOfOptions == Running => gravity[model_.id] = engineOptions.gravity

\* C20: a call setOptions(getOptions()) leaves the options and the gravity
\* of every model as they are.
C20_SetGetOptionsNoOp == [][(pc = "idle" /\ lastOp' = "setOptions" /\ setOptions(getOptions)) => (engineOptions' = engineOptions /\ gravity' = gravity)]_vars

\* the dynamics have been evaluated with every contact frame at or above
\* the ground
Airborne == frames # <<>> /\ \A i \in ContactFrames : frames[i].pz >= 0

\* C12: after an evaluation of the dynamics in which every contact frame is
\* at or above the ground, every entry of the force accumulator and of the
\* contact-force buffer of the model is zero.
C12_AirborneNoContact == Airborne => ((\A j \in Joints : fext[j] = ZeroForce) /\ (\A i \in ContactFrames : contactForces_[i] = ZeroForce))

\* C12 witness: the dynamics have been evaluated with one frame touching
\* the ground while moving down and sideways, and the other above it.
C12_Witness == Airborne /\ frames[1].pz = 0 /\ frames[1].vz < 0 /\ frames[2].pz > 0 /\ fext[1] = ZeroForce

\* C17: a seek to a negative position or to one beyond the buffer returns
\* BAD_INPUT and leaves the position as it is; a seek to a position within
\* the buffer returns SUCCESS and sets the position.
C17_Seek ==
    [][ioOp'.op = "seek" =>
        /\ (ioOp'.arg < 0 \/ ioOp'.arg >= bufferSize) => (ioOp'.ret = "BAD_INPUT" /\ currentPos_' = currentPos_)
        /\ (0 <= ioOp'.arg /\ ioOp'.arg < bufferSize) => (ioOp'.ret = "SUCCESS" /\ currentPos_' = ioOp'.arg)]_vars

\* C18: for a penetrating frame that slides at the speed s > 0, the
\* tangential force before the clamp is -(vxy / s) * mu(s) * Fz, and each of
\* its components is then clamped to the bound.
C18_TangentialForce ==
    frames # <<>> => \A i \in ContactFrames : (frames[i].pz < 0 /\ Norm(frames[i].vxy) > 0) =>
        \A k \in 1..2 :
            /\ fextInWorld[i].fxy[k] * Norm(frames[i].vxy) = -frames[i].vxy[k] * frictionCoeff(Norm(frames[i].vxy), contactOptions) * fextInWorld[i].fz
            /\ fextInWorld[i].fxyClamped[k] = clampTangential(fextInWorld[i].fxy[k], contactOptions)

\* the friction has been probed at one of its two switching speeds
ProbedAtSwitch == muProbe.s = contactOptions.dryFrictionVelEps \/ 2 * muProbe.s = 3 * contactOptions.dryFrictionVelEps

\* C19 (as stated): at each switching speed the finite-difference slope of
\* the friction coefficient just below equals the slope just above.
C19_SlopesAgree == ProbedAtSwitch => muProbe.below = muProbe.above

\* C19 (amended): the friction coefficient is continuous at the two
\* switching speeds and linear on either side, with a slope that changes
\* there: frictionDry / eps below eps, -2 (frictionDry - frictionViscous) /
\* eps between eps and 1.5 eps, and 0 above (slopes times eps, over one unit
\* of speed).
C19_FrictionContinuous ==
    /\ muProbe.s = contactOptions.dryFrictionVelEps => (muProbe.below = contactOptions.frictionDry /\ muProbe.above = -2 * (contactOptions.frictionDry - contactOptions.frictionViscous))
    /\ 2 * muProbe.s = 3 * contactOptions.dryFrictionVelEps => (muProbe.below = -2 * (contactOptions.frictionDry - contactOptions.frictionViscous) /\ muProbe.above = 0)

\* C19 witness: the friction has been probed at the upper switching speed,
\* where its slope changes.
C19_Witness == 2 * muProbe.s = 3 * contactOptions.dryFrictionVelEps /\ muProbe.below # muProbe.above

\* C21: in break-point mode a trial step has size min(dt, next_time -
\* current_time): the current time never exceeds next_time and next_time
\* never exceeds end_time; an accepted step advances the time by that size
\* and leaves dt at least as large as it was; a rejected step leaves the
\* time where it was and sets dt to the shrunk size the stepper returned.
C21_BreakPointSteps ==
    [][/\ (Running' /\ updatePeriod' > 0) => (current_time' <= next_time' /\ next_time' <= end_time')
       /\ (pc = "step" /\ pc' = "step") =>
            LET h == Min(dt, next_time - current_time)
            IN  \/ current_time' = current_time + h /\ dt' >= dt /\ fails' = 0
                \/ current_time' = current_time /\ dt' = Shrink(h) /\ fails' = fails + 1 /\ stepperState_'.x = stepperState_.x]_vars

\* C21 witness: inside an interval between two break-points, after accepted
\* steps, a trial step has been rejected and dt is the shrunk size.
C21_Witness == pc = "step" /\ updatePeriod > 0 /\ fails > 0 /\ current_time > 0 /\ current_time < next_time /\ dt < updatePeriod

\* a step in which the outer loop calls compute_command
CalledFromLoop == pc = "ctrl" /\ Len(ev') > Len(ev)

\* a step of a run that evaluates the dynamics: the evaluation before the
\* loop, the one after a controller break-point, a trial step
EvaluatesDynamics == (pc = "idle" /\ pc' # "idle") \/ pc = "refresh" \/ (pc = "step" /\ pc' # "post") \/ pc = "fstep"

\* C22: with a controller period above epsilon, compute_command is called
\* only by the outer loop, at times that coincide with a multiple of the
\* period, and no evaluation of the dynamics changes the command; with a
\* period of at most epsilon the outer loop never calls it, and every
\* evaluation of the dynamics leaves a saturated command of the controller
\* in uCommandLast and in uControl.
C22_ControllerCallSites ==
    [][LET p == engineOptions.controllerUpdatePeriod
           sat == \E c \in CmdValues : stepperState_'.uCommandLast = Saturate(model_, c)
       IN  /\ (p > Eps /\ CalledFromLoop) => Coincides(current_time, p)
           /\ (p > Eps /\ EvaluatesDynamics /\ pc # "idle") => stepperState_'.uCommandLast = stepperState_.uCommandLast
           /\ p <= Eps => ~CalledFromLoop
           /\ (p <= Eps /\ EvaluatesDynamics) => (sat /\ stepperState_'.uControl = stepperState_'.uCommandLast)]_vars

\* C23: for each actuated joint the force before the blending is 0 inside
\* the limits (and so is the force deposited), -kb*(q-qmax) - db*max(0,v)
\* and never positive above qmax, kb*(qmin-q) - db*min(0,v) and never
\* negative below qmin; the velocity row of an actuated joint holds the
\* force of that joint only, and every other row of uBounds is 0.
C23_JointLimits ==
    jointState # <<>> =>
        /\ \A i \in ActuatedJoints :
            LET q == jointState.q[jointsPositionIdx[i]]
                v == jointState.v[jointsVelocityIdx[i]]
                kb == jointOptions.boundStiffness
                db == jointOptions.boundDamping
                F == forceJoint[i]
            IN  /\ (boundsMin[i] <= q /\ q <= boundsMax[i]) => (F = 0 /\ uBounds[jointsVelocityIdx[i]] = 0)
                /\ q > boundsMax[i] => (F = -kb * (q - boundsMax[i]) - db * Max(0, v) /\ F <= 0 /\ uBounds[jointsVelocityIdx[i]] <= 0)
                /\ q < boundsMin[i] => (F = kb * (boundsMin[i] - q) - db * Min(0, v) /\ F >= 0 /\ uBounds[jointsVelocityIdx[i]] >= 0)
                /\ (F = 0) = (uBounds[jointsVelocityIdx[i]] = 0)
        /\ \A r \in VelocityRows : (\A i \in ActuatedJoints : jointsVelocityIdx[i] # r) => uBounds[r] = 0

\* C23 witness: one actuated joint is above its upper limit and moves back
\* towards it, the other is below its lower limit and moves further out,
\* with a positive stiffness and a positive damping.
C23_Witness == jointState # <<>> /\ jointOptions.boundStiffness > 0 /\ jointOptions.boundDamping > 0 /\ jointState.q[3] > boundsMax[1] /\ jointState.v[2] < 0 /\ jointState.q[4] < boundsMin[2] /\ jointState.v[3] < 0 /\ uBounds[2] < 0 /\ uBounds[3] > 0

\* C24: within a run a telemetry row is recorded at every entry of the
\* outer loop and nowhere else, stamped with the time of the snapshot; the
\* first row is at t = 0; at the break of the loop (end time, callback or
\* iteration cap) the number of rows is the number of completed outer
\* iterations plus one, and the last row carries the time of the final
\* snapshot.
C24_OneRowPerEntry ==
    [][/\ (Running /\ nRows' # nRows) => pc = "publish"
       /\ pc = "publish" => (nRows' = nRows + 1 /\ rowT' = stepperState_.tLast)
       /\ (Running' /\ nRows' = 1) => rowT' = 0
       /\ (Running' /\ pc' # "publish") => nRows' = stepperState_'.iterLast + 1
       /\ pc' = "exit" => (nRows' = stepperState_'.iterLast + 1 /\ rowT' = stepperState_'.tLast)]_vars

\* C24 witness: a run of three completed outer iterations is at its break
\* with four rows, the last at the time of the final snapshot.
C24_Witness == pc = "exit" /\ stepperState_.iterLast = 3 /\ nRows = 4 /\ rowT = stepperState_.tLast /\ rowT > 0

\* C25: a successful call of initialize leaves the engine with the model and
\* the controller it was given, and a simulate call that directly follows
\* a call of initialize starts a run only if that call returned SUCCESS,
\* whatever calls of initialize came before it.
C25_LastInitializeDecides ==
    [][/\ (pc = "idle" /\ lastOp' = "initialize" /\ returnCode' = "SUCCESS") => \A m \in Models, c \in Controllers : initialize(m, c, "cbUser") => (model_' = m /\ controller_' = c)
       /\ (pc = "idle" /\ pc' # "idle" /\ lastOp = "initialize") => returnCode = "SUCCESS"]_vars

\* C26: at every telemetry sample of a run, the channels whose values are
\* updated are exactly the channels registered by the last initialize.
C26_UpdatedAreRegistered == (Running /\ nRows >= 1) => updated = registered

\* C27: after any sequence of open, seek, readData, writeData and resize the
\* position lies between 0 and the size of the buffer; readData and
\* writeData with dataSize >= 0 copy only bytes inside the buffer, return a
\* count between 0 and dataSize, move the position by exactly that count
\* and leave the size of the buffer as it is.
C27_PositionInBuffer ==
    [][/\ 0 <= currentPos_' /\ currentPos_' <= bufferSize'
       /\ ioOp'.op \in {"read", "write"} =>
            /\ ioOp'.ret # "CRASH"
            /\ 0 <= ioOp'.count /\ ioOp'.count <= ioOp'.arg
            /\ currentPos_ + ioOp'.count <= bufferSize
            /\ currentPos_' = currentPos_ + ioOp'.count
            /\ bufferSize' = bufferSize]_vars

\* C28: __getitem__(sensor_type, sensor_name) returns the data of the sensor
\* when the key is present, that is when __contains__ answers true, and
\* raises KeyError for every absent key, of an unknown type or of a known
\* type and an unknown name.
C28_GetItem ==
    (sensorsLookup # <<>> /\ sensorsLookup.op = "getitem") =>
        sensorsLookup.result = IF containsKey(sensorsLookup.self, sensorsLookup.sensorType, sensorsLookup.sensorName) THEN "DATA" ELSE "KeyError"

\* the columns named in a header after the marker
ColumnsOf(header) == {header[k] : k \in (lastConstantId(header) + 1)..Len(header)}

\* C29: the data dictionary returned by formatLog has one entry per column
\* named in the header after the marker, each holding as many values as
\* there are timestamps, whether clear_memory is true or false.
C29_FormatLog ==
    (formattedLog # <<>> /\ formattedLog.returned # "none") =>
        /\ formattedLog.returned = "tuple"
        /\ DOMAIN formattedLog.data = ColumnsOf(formattedLog.raw.header)
        /\ \A n \in DOMAIN formattedLog.data : formattedLog.data[n] = formattedLog.raw.nT

\* C30: the property position_limit_upper of a model returns its upper
\* position limit, and position_limit_lower its lower position limit.
C30_LimitProperties ==
    positionLimits # <<>> =>
        /\ positionLimits.property = "position_limit_upper" => positionLimits.value = positionLimits.limits.max
        /\ positionLimits.property = "position_limit_lower" => positionLimits.value = positionLimits.limits.min

====
